---- MODULE Spec2Model ----
(***************************************************************************)
(* Inventory manager: SQLite repository (repository.py), use-case layer    *)
(* (services.py) and console menu loop (cli.py).                           *)
(*                                                                         *)
(* The database file is the variable db.  Every repository operation is    *)
(* an operator that threads a connection context through the statements    *)
(* the Python code executes, with the transaction rules of the sqlite3     *)
(* module (legacy transaction control): DML opens a transaction            *)
(* implicitly, DDL and executescript run in autocommit, close() discards   *)
(* an open transaction.                                                    *)
(*                                                                         *)
(* Storage failures are an input: fuel = k > 0 makes the k-th storage      *)
(* step of a handler raise sqlite3.OperationalError, fuel = 0 none.        *)
(***************************************************************************)
EXTENDS Integers, Sequences, FiniteSets, TLC

VARIABLES db, pre, last, prev, status, cli

vars == <<db, pre, last, prev, status, cli>>

(***************************** bounds **************************************)
\* Most rows the products table is filled with.
MaxProducts == 2
\* Longest seed list of a JSON file.
MaxSeed == 2
\* Latest storage step of a handler that is made to fail.
MaxSteps == 6

(***************************** values **************************************)
\* A sku is TEXT: a sequence of character codes (1 = "A", 2 = "B").
Skus == {<<>>, <<1>>, <<1, 2>>, <<2>>}
\* What now_iso() returns.
Times == {"t1"}
\* vat_rate is held in percent (0.20 is 20), unit_price_ht in cents.
DefaultVat == 20

\* models.Product(...): a frozen record, id absent (0) before insertion.
Product(id, sku, name, category, unit_price_ht, vat_rate, quantity, created_at) ==
    [id |-> id, sku |-> sku, name |-> name, category |-> category,
     unit_price_ht |-> unit_price_ht, vat_rate |-> vat_rate,
     quantity |-> quantity, created_at |-> created_at]

(***************************** database ************************************)
\* The database file: which tables exist, their rows, and the AUTOINCREMENT
\* counter of products kept in sqlite_sequence.
EmptyFile == [hasP |-> FALSE, hasS |-> FALSE, products |-> {}, sales |-> {}, seq |-> 0]

Min(a, b) == IF a < b THEN a ELSE b

RECURSIVE SkuLessFrom(_, _, _)
\* memcmp over the common prefix, then the shorter string first (BINARY collation).
SkuLessFrom(a, b, i) ==
    IF i > Min(Len(a), Len(b)) THEN Len(a) < Len(b)
    ELSE IF a[i] # b[i] THEN a[i] < b[i]
    ELSE SkuLessFrom(a, b, i + 1)

SkuLess(a, b) == SkuLessFrom(a, b, 1)

\* Variant: rows in rowid order, as without the ORDER BY clause.
OrderById(r, s) == r.id < s.id

\* The sort key of ORDER BY sku ASC: TRUE when row r comes before row s.
OrderBySku(r, s) == SkuLess(r.sku, s.sku)

RECURSIVE SortRows(_)
SortRows(rows) ==
    IF rows = {} THEN <<>>
    ELSE LET first == CHOOSE r \in rows : \A s \in rows \ {r} : OrderBySku(r, s)
         IN <<first>> \o SortRows(rows \ {first})

\* The CHECK constraints of the products table.
CheckViolated(p) ==
    \/ p.unit_price_ht < 0
    \/ p.vat_rate < 0 \/ p.vat_rate > 100
    \/ p.quantity < 0

\* Variant: the sku column without UNIQUE.
UniqueIgnored(rows, p) == FALSE

\* sku TEXT NOT NULL UNIQUE.
UniqueViolated(rows, p) == \E r \in rows : r.sku = p.sku

(***************************** storage steps *******************************)
SqliteErrors == {"sqlite3.OperationalError", "sqlite3.IntegrityError"}

Fails(fuel) == fuel = 1

Burn(fuel) == IF fuel = 0 THEN 0 ELSE fuel - 1

\* A connection context: the file (db), the connection's view of it with its
\* uncommitted changes (work), and what the with-body has raised or returned.
Ctx(d, open, fuel, err) ==
    [db |-> d, work |-> d, open |-> open, inTxn |-> FALSE, fuel |-> fuel,
     err |-> err, ret |-> 0, retList |-> <<>>, fault |-> err # "none"]

\* The statement raises e for a reason of its own (a constraint, a missing table).
Raise(cx, e) == [cx EXCEPT !.err = e]

\* The storage layer fails the statement (I/O error, locked or full file).
Fault(cx) == [cx EXCEPT !.err = "sqlite3.OperationalError", !.fuel = 0, !.fault = TRUE]

\* conn.commit(): writes the open transaction to the file; nothing when none is open.
commit(cx) == IF cx.inTxn THEN [cx EXCEPT !.db = cx.work, !.inTxn = FALSE] ELSE cx

\* conn.rollback(): drops the open transaction; nothing when none is open.
rollback(cx) == IF cx.inTxn THEN [cx EXCEPT !.work = cx.db, !.inTxn = FALSE] ELSE cx

\* A statement run in autocommit (DDL, executescript): written to the file at once
\* unless a transaction is open.
Write(cx, d) == IF cx.inTxn THEN [cx EXCEPT !.work = d]
                ELSE [cx EXCEPT !.work = d, !.db = d]

\* connect(), up to the yield: sqlite3.connect, then PRAGMA foreign_keys = ON.
connect_enter(d, fuel) ==
    IF Fails(fuel) THEN Ctx(d, FALSE, 0, "sqlite3.OperationalError")
    ELSE IF Fails(Burn(fuel)) THEN Ctx(d, TRUE, 0, "sqlite3.OperationalError")
    ELSE Ctx(d, TRUE, Burn(Burn(fuel)), "none")

\* Variant: connect() without its finally clause.
connect_exit_leak(cx) ==
    [cx EXCEPT !.err = IF cx.err \in SqliteErrors THEN "DatabaseError" ELSE cx.err]

\* connect(), after the yield: `except sqlite3.Error` turns what the body raised
\* into DatabaseError, `finally` closes the connection (an open transaction is
\* lost with it; an unbound conn raises NameError, which is swallowed).
connect_exit(cx) ==
    [cx EXCEPT !.err = IF cx.err \in SqliteErrors THEN "DatabaseError" ELSE cx.err,
               !.open = FALSE, !.inTxn = FALSE, !.work = cx.db]

\* conn.executescript(SCHEMA_SQL): commits what is pending, then CREATE TABLE IF
\* NOT EXISTS products; CREATE TABLE IF NOT EXISTS sales; the indexes; each
\* statement in autocommit.
executescript_schema(cx0) ==
    LET cx == commit(cx0) IN
    IF Fails(cx.fuel) THEN Fault(cx)
    ELSE LET c1 == [Write(cx, [cx.work EXCEPT !.hasP = TRUE]) EXCEPT !.fuel = Burn(cx.fuel)]
         IN IF Fails(c1.fuel) THEN Fault(c1)
            ELSE [Write(c1, [c1.work EXCEPT !.hasS = TRUE]) EXCEPT !.fuel = Burn(c1.fuel)]

\* The handler shared by the schema operations and insert_product:
\* except sqlite3.Error: conn.rollback(); raise DatabaseError.
OnSqliteError(cx) ==
    IF cx.err \in SqliteErrors THEN [rollback(cx) EXCEPT !.err = "DatabaseError"] ELSE cx

DropTable(cx, d) ==
    IF Fails(cx.fuel) THEN Fault(cx)
    ELSE [Write(cx, d) EXCEPT !.fuel = Burn(cx.fuel)]

\* Variant: the reset without its two DROP TABLE statements.
reset_body_keep(cx) ==
    LET c3 == executescript_schema(cx)
    IN OnSqliteError(IF c3.err # "none" THEN c3 ELSE commit(c3))

\* The with-body of reset_and_create_schema: DROP TABLE IF EXISTS sales, DROP
\* TABLE IF EXISTS products (with its sqlite_sequence row), the schema script,
\* commit.
reset_body(cx) ==
    LET c1 == DropTable(cx, [cx.work EXCEPT !.hasS = FALSE, !.sales = {}])
        c2 == IF c1.err # "none" THEN c1
              ELSE DropTable(c1, [c1.work EXCEPT !.hasP = FALSE, !.products = {}, !.seq = 0])
        c3 == IF c2.err # "none" THEN c2 ELSE executescript_schema(c2)
    IN OnSqliteError(IF c3.err # "none" THEN c3 ELSE commit(c3))

reset_and_create_schema(d, fuel) ==
    LET cx == connect_enter(d, fuel)
    IN connect_exit(IF cx.err # "none" THEN cx ELSE reset_body(cx))

create_schema_if_needed(d, fuel) ==
    LET cx == connect_enter(d, fuel)
        c1 == IF cx.err # "none" THEN cx ELSE executescript_schema(cx)
    IN connect_exit(OnSqliteError(IF c1.err # "none" THEN c1 ELSE commit(c1)))

\* The with-body of insert_product: the INSERT opens a transaction, a constraint
\* or storage error is rolled back and raised as DatabaseError, commit, lastrowid.
insert_body(cx, p, now) ==
    LET c0 == [cx EXCEPT !.inTxn = TRUE]
        row == Product(cx.work.seq + 1, p.sku, p.name, p.category, p.unit_price_ht,
                       p.vat_rate, p.quantity,
                       IF p.created_at # "" THEN p.created_at ELSE now)
        c1 == IF Fails(cx.fuel) THEN Fault(c0)
              ELSE IF ~cx.work.hasP THEN Raise(c0, "sqlite3.OperationalError")
              ELSE IF CheckViolated(p) \/ UniqueViolated(cx.work.products, p)
                   THEN Raise(c0, "sqlite3.IntegrityError")
              ELSE [c0 EXCEPT !.work = [cx.work EXCEPT !.products = @ \cup {row},
                                                       !.seq = row.id],
                              !.fuel = Burn(cx.fuel)]
        c2 == IF c1.err # "none" THEN c1
              ELSE IF Fails(c1.fuel) THEN Fault(c1)
              ELSE [commit(c1) EXCEPT !.fuel = Burn(c1.fuel), !.ret = row.id]
    IN OnSqliteError(c2)

insert_product(d, p, now, fuel) ==
    LET cx == connect_enter(d, fuel)
    IN connect_exit(IF cx.err # "none" THEN cx ELSE insert_body(cx, p, now))

\* Product(id=int(row["id"]), sku=str(row["sku"]), ...) of a stored row.
RowToProduct(r) ==
    Product(r.id, r.sku, r.name, r.category, r.unit_price_ht, r.vat_rate,
            r.quantity, r.created_at)

\* The with-body of list_products: SELECT * FROM products ORDER BY sku ASC; no
\* handler of its own.
list_body(cx) ==
    IF Fails(cx.fuel) THEN Fault(cx)
    ELSE IF ~cx.work.hasP THEN Raise(cx, "sqlite3.OperationalError")
    ELSE LET rows == SortRows(cx.work.products)
         IN [cx EXCEPT !.retList = [i \in 1..Len(rows) |-> RowToProduct(rows[i])],
                       !.fuel = Burn(cx.fuel)]

list_products(d, fuel) ==
    LET cx == connect_enter(d, fuel)
    IN connect_exit(IF cx.err # "none" THEN cx ELSE list_body(cx))

\* The methods class SQLiteRepository defines.
RepositoryMethods ==
    {"connect", "reset_and_create_schema", "create_schema_if_needed",
     "insert_product", "list_products"}

(***************************** use cases ***********************************)
\* What a use case hands back: the file, the exception raised ("none" when it
\* returns), the returned value, the repository calls made, and whether any of
\* them left a connection or a transaction open.
Res(cx, calls) ==
    [db |-> cx.db, err |-> cx.err, ret |-> cx.ret, retList |-> cx.retList,
     fuel |-> cx.fuel, fault |-> cx.fault, open |-> cx.open, inTxn |-> cx.inTxn,
     calls |-> calls]

\* A repository call made after the use case's earlier ones (sofar).
Then(sofar, cx) ==
    [Res(cx, sofar.calls + 1) EXCEPT !.open = sofar.open \/ cx.open,
                                     !.inTxn = sofar.inTxn \/ cx.inTxn]

Start(d, fuel) == Res(Ctx(d, FALSE, fuel, "none"), 0)

Fields == {"sku", "name", "category", "unit_price_ht", "quantity", "vat_rate"}

\* utils.load_initial_json: the parsed document, or DataImportError when the
\* JSON is malformed or a product lacks a required field.
load_initial_json(file) ==
    IF ~file.ok \/ \E i \in 1..Len(file.products) : file.products[i].has # Fields
    THEN [err |-> "DataImportError", products |-> <<>>]
    ELSE [err |-> "none", products |-> file.products]

RECURSIVE InsertLoop(_, _, _, _)
\* for p in products: Product(sku=p["sku"], ...); insert_product; count += 1
InsertLoop(ps, i, res, now) ==
    IF i > Len(ps) THEN [res EXCEPT !.ret = Len(ps)]
    ELSE IF ps[i].has # Fields THEN [res EXCEPT !.err = "KeyError"]
    ELSE LET p == ps[i]
             prod == Product(0, p.sku, p.name, p.category, p.unit_price_ht,
                             p.vat_rate, p.quantity, now)
             r == Then(res, insert_product(res.db, prod, now, res.fuel))
         IN IF r.err # "none" THEN r ELSE InsertLoop(ps, i + 1, r, now)

\* Variant: the schema is reset or created before the file is loaded.
initialize_reset_first(d, file, reset, now, fuel) ==
    LET r1 == Then(Start(d, fuel),
                   IF reset THEN reset_and_create_schema(d, fuel)
                   ELSE create_schema_if_needed(d, fuel))
        payload == load_initial_json(file)
    IN IF r1.err # "none" THEN r1
       ELSE IF payload.err # "none" THEN [r1 EXCEPT !.err = payload.err]
       ELSE InsertLoop(payload.products, 1, r1, now)

\* initialize_from_json: load the file, reset or create the schema, insert each
\* product, return the count.
initialize_from_json(d, file, reset, now, fuel) ==
    LET payload == load_initial_json(file)
        r1 == Then(Start(d, fuel),
                   IF reset THEN reset_and_create_schema(d, fuel)
                   ELSE create_schema_if_needed(d, fuel))
    IN IF payload.err # "none" THEN [Start(d, fuel) EXCEPT !.err = payload.err]
       ELSE IF r1.err # "none" THEN r1
       ELSE InsertLoop(payload.products, 1, r1, now)

\* list_inventory: create_schema_if_needed, then list_products.
list_inventory(d, fuel) ==
    LET r1 == Then(Start(d, fuel), create_schema_if_needed(d, fuel))
    IN IF r1.err # "none" THEN r1 ELSE Then(r1, list_products(r1.db, r1.fuel))

\* add_product builds the Product with the current time and inserts it.
add_product(d, a, now, fuel) ==
    LET product == Product(0, a.sku, a.name, a.category, a.unit_price_ht,
                           a.vat_rate, a.quantity, now)
    IN Then(Start(d, fuel), insert_product(d, product, now, fuel))

\* Looking up a method on self.repo: AttributeError when the class has none of
\* that name.
Attr(name) == IF name \in RepositoryMethods THEN "none" ELSE "AttributeError"

\* get_product ensures the schema, then evaluates self.repo.get_product_by_id.
get_product(d, product_id, fuel) ==
    LET r1 == Then(Start(d, fuel), create_schema_if_needed(d, fuel))
    IN IF r1.err # "none" THEN r1 ELSE [r1 EXCEPT !.err = Attr("get_product_by_id")]

\* update_product starts by evaluating self.repo.get_product_by_id.
update_product(d, product_id, changes, fuel) ==
    [Start(d, fuel) EXCEPT !.err = Attr("get_product_by_id")]

(***************************** inputs **************************************)
Fuel == 0..MaxSteps

Ids == 1..2

Arg(sku, name, unit_price_ht, vat_rate, quantity) ==
    [sku |-> sku, name |-> name, category |-> "c1", unit_price_ht |-> unit_price_ht,
     vat_rate |-> vat_rate, quantity |-> quantity]

NoArg == Arg(<<>>, "", 0, 0, 0)

\* Arguments of add_product: every sku with valid numbers, one with every number
\* on a bound of its range, and one per number out of its range.
AddInputs ==
    {Arg(s, "n1", 500, DefaultVat, 3) : s \in Skus}
    \cup {Arg(<<1>>, "n2", 0, 100, 0),
          Arg(<<1>>, "n1", -1, DefaultVat, 3), Arg(<<1>>, "n1", 500, DefaultVat, -1),
          Arg(<<1>>, "n1", 500, -5, 3), Arg(<<1>>, "n1", 500, 150, 3)}

\* Optional parameters of update_product: the fields supplied.
Changes == {{}, {"name"}, {"name", "unit_price_ht", "vat_rate", "quantity"}}

Desc(a, has) ==
    [has |-> has, sku |-> a.sku, name |-> a.name, category |-> a.category,
     unit_price_ht |-> a.unit_price_ht, vat_rate |-> a.vat_rate, quantity |-> a.quantity]

\* Elements of the "products" array of a seed file.
SeedDescs ==
    {Desc(Arg(<<1>>, "n1", 500, DefaultVat, 3), Fields),
     Desc(Arg(<<2>>, "n1", 500, DefaultVat, 3), Fields),
     Desc(Arg(<<1, 2>>, "n1", 500, 0, 3), Fields \ {"vat_rate"})}

SeqsUpTo(S, n) == UNION {[1..k -> S] : k \in 0..n}

\* Seed files: a well-formed document with its products, or one that is not JSON.
Files ==
    {[ok |-> TRUE, products |-> ps] : ps \in SeqsUpTo(SeedDescs, MaxSeed)}
    \cup {[ok |-> FALSE, products |-> <<>>]}

MissingField(file) == \E i \in 1..Len(file.products) : file.products[i].has # Fields

\* Database files the program is started on (--db): a fresh one, or one that
\* holds the schema with the rows an earlier run left in it.  The sale row is one
\* written through the same schema by another writer: this program has no sale
\* operation yet.
Stock1 == Product(1, <<2>>, "n1", "c1", 500, DefaultVat, 3, "t1")

Sale1 ==
    [id |-> 1, product_id |-> 1, sku |-> <<2>>, quantity |-> 2, unit_price_ht |-> 500,
     vat_rate |-> DefaultVat, total_ht |-> 1000, total_vat |-> 200, total_ttc |-> 1200,
     sold_at |-> "t1"]

InitFiles ==
    {EmptyFile,
     [EmptyFile EXCEPT !.hasP = TRUE, !.hasS = TRUE],
     [EmptyFile EXCEPT !.hasP = TRUE, !.hasS = TRUE, !.products = {Stock1}, !.seq = 1],
     [EmptyFile EXCEPT !.hasP = TRUE, !.hasS = TRUE, !.products = {Stock1}, !.seq = 1,
                       !.sales = {Sale1}]}

(***************************** state machine *******************************)
\* last: the operation that ran last, its arguments and its outcome; pre: the
\* file it started on; prev: whether the operation before it was a reset that
\* returned, and whether that reset started on a file with products and sales.
Outcome(op, r, arg, id, file, reset) ==
    [op |-> op, err |-> r.err, ret |-> r.ret, retList |-> r.retList,
     calls |-> r.calls, open |-> r.open, inTxn |-> r.inTxn, fault |-> r.fault,
     arg |-> arg, id |-> id, changes |-> {}, malformed |-> ~file.ok,
     missing |-> MissingField(file), reset |-> reset]

NoFile == [ok |-> TRUE, products |-> <<>>]

Init ==
    /\ db \in InitFiles
    /\ pre = db
    /\ last = Outcome("start", Start(db, 0), NoArg, 0, NoFile, FALSE)
    /\ prev = [reset |-> FALSE, hadData |-> FALSE]
    /\ status = "running"
    /\ cli = [choice |-> "", exc |-> "none", menu |-> TRUE]

\* The operation ends with outcome o on file r.db; the table is kept within
\* MaxProducts rows.
Finish(r, o) ==
    /\ Cardinality(r.db.products) <= MaxProducts
    /\ db' = r.db
    /\ pre' = db
    /\ last' = o
    /\ prev' = LET reset == last.op = "reset_and_create_schema" /\ last.err = "none"
                IN [reset |-> reset,
                    hadData |-> reset /\ pre.products # {} /\ pre.sales # {}]

ResetAndCreateSchema ==
    \E f \in Fuel :
        LET r == Res(reset_and_create_schema(db, f), 1)
        IN /\ Finish(r, Outcome("reset_and_create_schema", r, NoArg, 0, NoFile, TRUE))
           /\ UNCHANGED <<status, cli>>

CreateSchemaIfNeeded ==
    \E f \in Fuel :
        LET r == Res(create_schema_if_needed(db, f), 1)
        IN /\ Finish(r, Outcome("create_schema_if_needed", r, NoArg, 0, NoFile, FALSE))
           /\ UNCHANGED <<status, cli>>

InsertProduct ==
    \E a \in AddInputs, t \in Times, f \in Fuel :
        LET p == Product(0, a.sku, a.name, a.category, a.unit_price_ht, a.vat_rate,
                         a.quantity, "")
            r == Res(insert_product(db, p, t, f), 1)
        IN /\ Finish(r, Outcome("insert_product", r, a, 0, NoFile, FALSE))
           /\ UNCHANGED <<status, cli>>

ListProducts ==
    \E f \in Fuel :
        LET r == Res(list_products(db, f), 1)
        IN /\ Finish(r, Outcome("list_products", r, NoArg, 0, NoFile, FALSE))
           /\ UNCHANGED <<status, cli>>

InitializeFromJson ==
    \E file \in Files, reset \in BOOLEAN, t \in Times, f \in Fuel :
        LET r == initialize_from_json(db, file, reset, t, f)
        IN /\ Finish(r, Outcome("initialize_from_json", r, NoArg, 0, file, reset))
           /\ UNCHANGED <<status, cli>>

ListInventory ==
    \E f \in Fuel :
        LET r == list_inventory(db, f)
        IN /\ Finish(r, Outcome("list_inventory", r, NoArg, 0, NoFile, FALSE))
           /\ UNCHANGED <<status, cli>>

AddProduct ==
    \E a \in AddInputs, t \in Times, f \in Fuel :
        LET r == add_product(db, a, t, f)
        IN /\ Finish(r, Outcome("add_product", r, a, 0, NoFile, FALSE))
           /\ UNCHANGED <<status, cli>>

GetProduct ==
    \E id \in Ids, f \in Fuel :
        LET r == get_product(db, id, f)
        IN /\ Finish(r, Outcome("get_product", r, NoArg, id, NoFile, FALSE))
           /\ UNCHANGED <<status, cli>>

UpdateProduct ==
    \E id \in Ids, ch \in Changes :
        LET r == update_product(db, id, ch, 0)
        IN /\ Finish(r, [Outcome("update_product", r, NoArg, id, NoFile, FALSE)
                         EXCEPT !.changes = ch])
           /\ UNCHANGED <<status, cli>>

\* The repository and the product use cases, called in any order.
Next ==
    \/ ResetAndCreateSchema
    \/ CreateSchemaIfNeeded
    \/ InsertProduct
    \/ ListProducts
    \/ ListInventory
    \/ AddProduct
    \/ GetProduct
    \/ UpdateProduct

Spec == Init /\ [][Next]_vars

\* Seeding from a JSON file, between additions and listings.
SeedNext ==
    \/ InitializeFromJson
    \/ AddProduct
    \/ ListInventory

SeedSpec == Init /\ [][SeedNext]_vars

(***************************** console menu ********************************)
\* The exception classes main() catches and resumes after.
DomainErrors == {"ValidationError", "DataImportError", "DatabaseError", "InventoryError"}

\* Variant: the loop without its `except DatabaseError` clause.
main_except_no_database(exc) ==
    IF exc = "none" THEN "running"
    ELSE IF exc \in {"ValidationError", "DataImportError"} THEN "running"
    ELSE IF exc = "InventoryError" THEN "running"
    ELSE IF exc = "KeyboardInterrupt" THEN "130"
    ELSE "1"

\* The except clauses of the menu loop: where an iteration that raised exc (or
\* "none") leaves the loop.
main_except(exc) ==
    IF exc = "none" THEN "running"
    ELSE IF exc \in {"ValidationError", "DataImportError"} THEN "running"
    ELSE IF exc = "DatabaseError" THEN "running"
    ELSE IF exc = "InventoryError" THEN "running"
    ELSE IF exc = "KeyboardInterrupt" THEN "130"
    ELSE "1"

\* One iteration of `while True`: `return 0` on choice 8, else the except clauses;
\* the menu is printed again when the loop goes on.
Iterate(choice, exc) ==
    LET st == IF choice = "8" /\ exc = "none" THEN "0" ELSE main_except(exc)
    IN /\ status = "running"
       /\ status' = st
       /\ cli' = [choice |-> choice, exc |-> exc, menu |-> st = "running"]

\* Text typed at a numeric prompt: blank, not a number, or the number val.
Typed(val) == [blank |-> FALSE, number |-> TRUE, val |-> val]

Blank == [blank |-> TRUE, number |-> FALSE, val |-> 0]

Garbage == [blank |-> FALSE, number |-> FALSE, val |-> 0]

Form(sku, name, price, qty, vat) ==
    [sku |-> sku, name |-> name, price |-> price, qty |-> qty, vat |-> vat]

\* What is typed at the prompts of "3) Ajouter un produit".
Forms ==
    {Form(s, "n1", Typed(500), Typed(3), Blank) : s \in Skus}
    \cup {Form(<<1>>, "n2", Typed(0), Typed(0), Typed(100)),
          Form(<<1>>, "n1", Garbage, Typed(3), Blank),
          Form(<<1>>, "n1", Typed(-1), Typed(3), Blank),
          Form(<<1>>, "n1", Typed(500), Typed(-1), Blank),
          Form(<<1>>, "n1", Typed(500), Blank, Blank),
          Form(<<1>>, "n1", Typed(500), Typed(3), Typed(150))}

\* action_add_product up to the call: "rejected" when the sku is empty or a
\* number does not parse or is out of range (ValueError), else the arguments.
FormArg(form) ==
    LET vat == IF form.vat.blank THEN DefaultVat ELSE form.vat.val
        bad == \/ form.sku = <<>>
               \/ ~form.price.number \/ form.price.val < 0
               \/ ~form.qty.number \/ form.qty.val < 0
               \/ (~form.vat.blank /\ ~form.vat.number)
               \/ vat < 0 \/ vat > 100
    IN [rejected |-> bad,
        arg |-> Arg(form.sku, form.name, form.price.val, vat, form.qty.val)]

\* A use case called from the menu ends on file r.db; pre, last and prev
\* keep the record of direct calls and are left alone by the menu loop.
Store(r) ==
    /\ Cardinality(r.db.products) <= MaxProducts
    /\ db' = r.db
    /\ UNCHANGED <<pre, last, prev>>

\* 1) action_initialize: the path prompt, then initialize_from_json(path, reset=True).
MenuInitialize ==
    \E file \in Files, t \in Times, f \in Fuel :
        LET r == initialize_from_json(db, file, TRUE, t, f)
        IN Store(r) /\ Iterate("1", r.err)

\* 2) action_list_inventory.
MenuList ==
    \E f \in Fuel :
        LET r == list_inventory(db, f)
        IN Store(r) /\ Iterate("2", r.err)

\* 3) action_add_product: a rejected form returns before the call; whatever
\* add_product raises is caught by `except Exception` and printed.
MenuAdd ==
    \E form \in Forms, t \in Times, f \in Fuel :
        LET in == FormArg(form)
            r == add_product(db, in.arg, t, f)
        IN /\ IF in.rejected THEN UNCHANGED <<db, pre, last, prev>> ELSE Store(r)
           /\ Iterate("3", "none")

\* 4) action_update_product: an id that is not a number returns at once; else
\* get_product(id), whose exception is not caught in the action.
MenuUpdate ==
    \E digits \in BOOLEAN, id \in Ids, f \in Fuel :
        LET r == get_product(db, id, f)
        IN IF ~digits
           THEN UNCHANGED <<db, pre, last, prev>> /\ Iterate("4", "none")
           ELSE Store(r) /\ Iterate("4", r.err)

\* 5), 6), 7): not implemented, a message is printed.
MenuTodo ==
    \E choice \in {"5", "6", "7"} :
        UNCHANGED <<db, pre, last, prev>> /\ Iterate(choice, "none")

\* 8) Quitter.
MenuQuit == UNCHANGED <<db, pre, last, prev>> /\ Iterate("8", "none")

\* Anything else typed at the menu.
MenuInvalid ==
    \E choice \in {"", "0", "9", "x"} :
        UNCHANGED <<db, pre, last, prev>> /\ Iterate(choice, "none")

\* Ctrl-C at a prompt: input() raises KeyboardInterrupt before the use case runs.
MenuInterrupt ==
    \E choice \in {"", "1", "3", "4"} :
        UNCHANGED <<db, pre, last, prev>> /\ Iterate(choice, "KeyboardInterrupt")

CliNext ==
    \/ MenuInitialize
    \/ MenuList
    \/ MenuAdd
    \/ MenuUpdate
    \/ MenuTodo
    \/ MenuQuit
    \/ MenuInvalid
    \/ MenuInterrupt

CliSpec == Init /\ [][CliNext]_vars

(***************************** properties **********************************)
RepositoryOps ==
    {"reset_and_create_schema", "create_schema_if_needed", "insert_product",
     "list_products"}

SkuStored(d, sku) == \E r \in d.products : r.sku = sku

\* C1: inserting a product whose sku is already in the products table (by
\* insert_product or add_product) fails with DatabaseError and leaves the table
\* with exactly the rows it had.
C1_DuplicateSkuRejected ==
    (last.op \in {"insert_product", "add_product"} /\ SkuStored(pre, last.arg.sku))
        => (last.err = "DatabaseError" /\ db.products = pre.products /\ db = pre)

\* A duplicate sku was offered to add_product with no storage failure involved.
C1_Witness ==
    /\ last.op = "add_product"
    /\ SkuStored(pre, last.arg.sku)
    /\ ~last.fault
    /\ last.err = "DatabaseError"

InvalidArg(a) ==
    \/ a.sku = <<>>
    \/ a.unit_price_ht < 0
    \/ a.quantity < 0
    \/ a.vat_rate < 0 \/ a.vat_rate > 100

\* C2: add_product with an empty sku, a negative price or quantity, or a vat_rate
\* outside [0,1] fails with a validation error before any repository call and
\* leaves the table unchanged; no product with an empty sku is ever stored by it.
C2_AddProductValidatesFirst ==
    (last.op = "add_product" /\ InvalidArg(last.arg))
        => /\ last.err = "ValidationError"
           /\ last.calls = 0
           /\ db = pre
           /\ ~(SkuStored(db, <<>>) /\ ~SkuStored(pre, <<>>))

RECURSIVE Range(_)
Range(seq) == IF seq = <<>> THEN {} ELSE {Head(seq)} \cup Range(Tail(seq))

\* C3: list_inventory returns exactly the stored products, each once, in strictly
\* ascending order of sku, and leaves the rows as they were.
C3_ListSortedBySku ==
    (last.op = "list_inventory" /\ last.err = "none")
        => /\ Range(last.retList) = db.products
           /\ Len(last.retList) = Cardinality(db.products)
           /\ \A i \in 1..(Len(last.retList) - 1) :
                  SkuLess(last.retList[i].sku, last.retList[i + 1].sku)
           /\ db.products = pre.products
           /\ db.sales = pre.sales

\* A listing of two or more products whose sku order is not their insertion order.
C3_Witness ==
    /\ last.op = "list_inventory"
    /\ last.err = "none"
    /\ Len(last.retList) >= 2
    /\ last.retList[1].id > last.retList[2].id

\* C4: get_product, when storage does not fail, raises nothing: it ensures the
\* schema and returns the stored product with that id, or nothing when there is
\* none.
C4_GetProductNeverRaises ==
    (last.op = "get_product" /\ ~last.fault)
        => /\ last.err = "none"
           /\ db.hasP /\ db.hasS
           /\ Range(last.retList) = {r \in db.products : r.id = last.id}

\* C5: update_product on an existing id succeeds, never changes id, sku or
\* created_at, keeps every field not supplied, and leaves every other row (and,
\* with nothing supplied, the whole table) identical.
C5_UpdateChangesOnlySupplied ==
    (last.op = "update_product" /\ \E r \in pre.products : r.id = last.id)
        => /\ last.err = "none"
           /\ \A r \in pre.products :
                \E u \in db.products :
                    /\ u.id = r.id /\ u.sku = r.sku /\ u.created_at = r.created_at
                    /\ (r.id # last.id \/ last.changes = {}) => u = r
                    /\ "name" \notin last.changes => u.name = r.name
                    /\ "unit_price_ht" \notin last.changes => u.unit_price_ht = r.unit_price_ht
                    /\ "quantity" \notin last.changes => u.quantity = r.quantity
                    /\ "vat_rate" \notin last.changes => u.vat_rate = r.vat_rate
           /\ Cardinality(db.products) = Cardinality(pre.products)

\* C6: initialize_from_json on a seed list with an element lacking a required
\* field fails with DataImportError and leaves both tables as they were, with
\* reset true or false.
C6_ImportFailsBeforeAnyWrite ==
    (last.op = "initialize_from_json" /\ last.missing)
        => (last.err = "DataImportError" /\ last.calls = 0 /\ db = pre)

\* A seed file with a missing field was imported with reset=True over a table
\* that held rows.
C6_Witness ==
    /\ last.op = "initialize_from_json"
    /\ last.missing
    /\ last.reset
    /\ pre.products # {}
    /\ last.err = "DataImportError"

\* C7: reset_and_create_schema followed by list_inventory, storage not failing,
\* returns the empty sequence, and the sales table is empty too.
C7_ResetThenListEmpty ==
    (last.op = "list_inventory" /\ ~last.fault /\ prev.reset)
        => /\ last.err = "none"
           /\ last.retList = <<>>
           /\ db.hasS /\ db.sales = {}

\* A listing right after a reset that started on a file with products and sales.
C7_Witness ==
    /\ last.op = "list_inventory"
    /\ last.err = "none"
    /\ prev.reset
    /\ prev.hadData
    /\ last.retList = <<>>

\* C8: reset_and_create_schema is one transaction: on success both tables exist
\* and are empty; when a step fails the file is as before the call and
\* DatabaseError is raised.
C8_ResetIsOneTransaction ==
    last.op = "reset_and_create_schema"
        => IF last.err = "none"
           THEN db.hasP /\ db.hasS /\ db.products = {} /\ db.sales = {}
           ELSE last.err = "DatabaseError" /\ db = pre

C9_MenuLoopExits ==
    /\ status = "0" => (cli.choice = "8" /\ cli.exc = "none")
    /\ status = "130" => cli.exc = "KeyboardInterrupt"
    /\ status = "1" => cli.exc \notin (DomainErrors \cup {"none", "KeyboardInterrupt"})
    /\ (cli.exc \in DomainErrors \/ (cli.exc = "none" /\ cli.choice # "8"))
           => (status = "running" /\ cli.menu)
    /\ \A e \in DomainErrors : main_except(e) = "running"

\* An action raised DatabaseError and the menu is shown again.
C9_Witness ==
    /\ cli.choice = "1"
    /\ cli.exc = "DatabaseError"
    /\ status = "running"
    /\ cli.menu

====
